---- MODULE Spec2Model ----
(***************************************************************************)
(* FinancialRatioAnalyzer (src/src/02_financial_ratio_analysis.py) as a    *)
(* state machine: the two input tables and the stored ratio tables are the *)
(* state, every public method is one action.  FinancialDataExtractor       *)
(* (src/src/01_financial_data_extraction.py) is a second state machine on  *)
(* its own variables, with a specification of its own.                     *)
(*                                                                         *)
(* Numbers.  A float64 cell is modelled as an exact rational n/d or one of *)
(* the IEEE-754 special values NaN, +inf, -inf.  Rounding, overflow and    *)
(* underflow are not modelled ("equal within tolerance" is equality of the *)
(* rationals), and neither is the sign of zero: the inputs keep Revenue    *)
(* and Total_Assets non-negative, so that no computed zero that is later   *)
(* used as a divisor (Asset_Turnover in pct_change) is a negative zero.    *)
(*                                                                         *)
(* Tables.  A DataFrame is a function from column names to series, a       *)
(* series is a sequence over the default RangeIndex (position i here is    *)
(* index label i-1 there).  pandas aligns series on the index in every     *)
(* binary operation, in the DataFrame constructor and in column            *)
(* assignment; the operators below do the same.                            *)
(***************************************************************************)
EXTENDS Integers, Sequences, FiniteSets, TLC

\* Longest input table of the model (the repository's own data has 4 rows).
MaxYears == 2

\* Year of the first row of the sample data.
FirstYear == 2015

----------------------------------------------------------------------------
(* float64 arithmetic on rationals with the IEEE special values *)

RECURSIVE GCD(_, _)
GCD(a, b) == IF b = 0 THEN a ELSE GCD(b, a % b)

AbsInt(x) == IF x < 0 THEN -x ELSE x

Max(a, b) == IF a >= b THEN a ELSE b

NaN == [k |-> "nan", n |-> 0, d |-> 1]
PInf == [k |-> "pinf", n |-> 0, d |-> 1]
NInf == [k |-> "ninf", n |-> 0, d |-> 1]

\* The rational n/d (d # 0) in lowest terms with a positive denominator.
Fin(n, d) ==
    LET g == GCD(AbsInt(n), AbsInt(d))
        s == IF d < 0 THEN -1 ELSE 1
    IN [k |-> "fin", n |-> s * (n \div g), d |-> s * (d \div g)]

Num(i) == [k |-> "fin", n |-> i, d |-> 1]

IsNaN(a) == a.k = "nan"
IsFinite(a) == a.k = "fin"
IsInf(a) == a.k \in {"pinf", "ninf"}

\* -1, 0 or 1; not meaningful for NaN.
Sign(a) ==
    CASE a.k = "pinf" -> 1
      [] a.k = "ninf" -> -1
      [] a.k = "fin" -> (IF a.n > 0 THEN 1 ELSE IF a.n < 0 THEN -1 ELSE 0)
      [] OTHER -> 0

Signed(s) == IF s > 0 THEN PInf ELSE NInf

Neg(a) ==
    CASE a.k = "pinf" -> NInf
      [] a.k = "ninf" -> PInf
      [] a.k = "fin" -> [k |-> "fin", n |-> -a.n, d |-> a.d]
      [] OTHER -> NaN

Abs(a) == IF a.k = "nan" THEN NaN ELSE IF Sign(a) < 0 THEN Neg(a) ELSE a

Add(a, b) ==
    CASE IsNaN(a) \/ IsNaN(b) -> NaN
      [] IsFinite(a) /\ IsFinite(b) -> Fin(a.n * b.d + b.n * a.d, a.d * b.d)
      [] IsInf(a) /\ IsInf(b) -> (IF a.k = b.k THEN a ELSE NaN)
      [] IsInf(a) -> a
      [] OTHER -> b

Sub(a, b) == Add(a, Neg(b))

\* The product of two rationals, cancelling across before multiplying.
MulFin(a, b) ==
    LET g1 == GCD(AbsInt(a.n), b.d)
        g2 == GCD(AbsInt(b.n), a.d)
    IN Fin((a.n \div g1) * (b.n \div g2), (a.d \div g2) * (b.d \div g1))

Mul(a, b) ==
    CASE IsNaN(a) \/ IsNaN(b) -> NaN
      [] IsFinite(a) /\ IsFinite(b) -> MulFin(a, b)
      [] Sign(a) = 0 \/ Sign(b) = 0 -> NaN
      [] OTHER -> Signed(Sign(a) * Sign(b))

\* x/0 is +-inf, 0/0 is NaN: numpy's float64 division raises nothing.
Div(a, b) ==
    CASE IsNaN(a) \/ IsNaN(b) -> NaN
      [] IsInf(a) /\ IsInf(b) -> NaN
      [] IsInf(a) -> (IF Sign(b) < 0 THEN Neg(a) ELSE a)
      [] IsInf(b) -> Num(0)
      [] b.n = 0 -> (IF a.n = 0 THEN NaN ELSE Signed(a.n))
      [] OTHER -> MulFin(a, Fin(b.d, b.n))

\* IEEE comparisons: every comparison with NaN is false.
Lt(a, b) ==
    CASE IsNaN(a) \/ IsNaN(b) -> FALSE
      [] IsFinite(a) /\ IsFinite(b) -> a.n * b.d < b.n * a.d
      [] a.k = b.k -> FALSE
      [] OTHER -> a.k = "ninf" \/ b.k = "pinf"

Gt(a, b) == Lt(b, a)

Ne(a, b) == IsNaN(a) \/ IsNaN(b) \/ a # b

Hundred == Num(100)

----------------------------------------------------------------------------
(* pandas series and frames *)

\* s.reindex(range(n)): the cell at a label the series lacks is NaN.
At(s, i) == IF i \in 1..Len(s) THEN s[i] ELSE NaN

Reindex(s, n) == [i \in 1..n |-> At(s, i)]

\* Binary operators align on the union of the two indexes.
SDiv(s, t) == [i \in 1..Max(Len(s), Len(t)) |-> Div(At(s, i), At(t, i))]
SSub(s, t) == [i \in 1..Max(Len(s), Len(t)) |-> Sub(At(s, i), At(t, i))]
SMul(s, t) == [i \in 1..Max(Len(s), Len(t)) |-> Mul(At(s, i), At(t, i))]
SScale(s, c) == [i \in 1..Len(s) |-> Mul(s[i], c)]
SUnscale(s, c) == [i \in 1..Len(s) |-> Div(s[i], c)]

\* pd.DataFrame({...}) from a dict of series: the union of their indexes.
MakeFrame(cols) ==
    LET n == CHOOSE m \in {Len(cols[c]) : c \in DOMAIN cols} :
                 \A c \in DOMAIN cols : Len(cols[c]) <= m
    IN [c \in DOMAIN cols |-> Reindex(cols[c], n)]

Rows(df) == Len(df["Year"])

\* df[name] = s: the series is reindexed to the frame's index.
SetColumn(df, name, s) ==
    [c \in DOMAIN df \cup {name} |-> IF c = name THEN Reindex(s, Rows(df)) ELSE df[c]]

\* Series.dropna(): NaN cells go, infinite cells stay.
DropNa(s) == SelectSeq(Reindex(s, Len(s)), LAMBDA x : ~IsNaN(x))

\* Series.ffill(): a NaN cell takes the last earlier cell that is not NaN.
FFill(s) ==
    [i \in 1..Len(s) |->
        LET js == {j \in 1..i : ~IsNaN(s[j])}
        IN IF js = {} THEN NaN ELSE s[CHOOSE j \in js : \A h \in js : h <= j]]

\* pct_change as the ratio to the previous row, without the - 1.
PctChangeRatio(s, fill) ==
    LET data == IF fill = "pad" THEN FFill(s) ELSE s
    IN [i \in 1..Len(s) |-> IF i = 1 THEN NaN ELSE Div(data[i], data[i - 1])]

\* Series.pct_change(): data / data.shift(1) - 1, where data is the series
\* forward-filled when fill_method is "pad" (the default before pandas 3)
\* and the series itself otherwise.
PctChange(s, fill) ==
    LET data == IF fill = "pad" THEN FFill(s) ELSE s
    IN [i \in 1..Len(s) |->
           IF i = 1 THEN NaN ELSE Sub(Div(data[i], data[i - 1]), Num(1))]

----------------------------------------------------------------------------
(* the analyzer *)

VARIABLES
    income,      \* self.income: the income-statement frame
    balance,     \* self.balance: the balance-sheet frame
    fill_method, \* what Series.pct_change fills with in the installed pandas
    ratios,      \* self.ratios: category name -> stored ratio frame
    result,      \* what the last call gave its caller
    financial_data, \* the extractor's self.financial_data, in insertion order
    extracted    \* what the last call of the extractor gave its caller

vars == <<income, balance, fill_method, ratios, result, financial_data, extracted>>

Categories == {"profitability", "liquidity", "leverage", "efficiency"}

\* Tenths, as the literals of the sample data are written (784.9 is T(7849)).
T(x) == Fin(x, 10)

\* One year of input: an income-statement row and a balance-sheet row.  The
\* columns no ratio reads (COGS, Operating_Expenses, Total_Liabilities) are
\* left out.  Two rows that differ by the trend cases of the classifier, the
\* 2018 row of the sample data, and two rows with zero denominators.
YearRows ==
    { [Revenue |-> Num(1000), Gross_Profit |-> Num(400), EBIT |-> Num(100),
       Interest_Expense |-> Num(1), Net_Income |-> Num(100),
       Total_Assets |-> Num(1000), Current_Assets |-> Num(480),
       Fixed_Assets |-> Num(500), Current_Liabilities |-> Num(380),
       Long_Term_Debt |-> Num(500), Shareholders_Equity |-> Num(100)],
      [Revenue |-> Num(1000), Gross_Profit |-> Num(440), EBIT |-> Num(95),
       Interest_Expense |-> Num(1), Net_Income |-> Num(85),
       Total_Assets |-> Num(1000), Current_Assets |-> Num(510),
       Fixed_Assets |-> Num(500), Current_Liabilities |-> Num(380),
       Long_Term_Debt |-> Num(450), Shareholders_Equity |-> Num(100)],
      [Revenue |-> T(5731), Gross_Profit |-> T(2242), EBIT |-> T(-4),
       Interest_Expense |-> T(198), Net_Income |-> T(22),
       Total_Assets |-> Num(980), Current_Assets |-> Num(320),
       Fixed_Assets |-> Num(660), Current_Liabilities |-> Num(290),
       Long_Term_Debt |-> Num(530), Shareholders_Equity |-> Num(160)],
      [Revenue |-> Num(1000), Gross_Profit |-> Num(400), EBIT |-> Num(0),
       Interest_Expense |-> Num(0), Net_Income |-> Num(100),
       Total_Assets |-> Num(0), Current_Assets |-> Num(480),
       Fixed_Assets |-> Num(500), Current_Liabilities |-> Num(0),
       Long_Term_Debt |-> Num(500), Shareholders_Equity |-> Num(0)],
      [Revenue |-> Num(0), Gross_Profit |-> Num(0), EBIT |-> Num(-5),
       Interest_Expense |-> Num(15), Net_Income |-> Num(5),
       Total_Assets |-> Num(1000), Current_Assets |-> Num(450),
       Fixed_Assets |-> Num(500), Current_Liabilities |-> Num(380),
       Long_Term_Debt |-> Num(0), Shareholders_Equity |-> Num(300)] }

\* pd.DataFrame(income_data): the first n years of ys as the income frame.
IncomeFrame(ys, n) ==
    [c \in {"Year", "Revenue", "Gross_Profit", "EBIT", "Interest_Expense", "Net_Income"} |->
        [i \in 1..n |-> IF c = "Year" THEN Num(FirstYear + i - 1) ELSE ys[i][c]]]

\* pd.DataFrame(balance_data): the first n years of ys as the balance frame.
BalanceFrame(ys, n) ==
    [c \in {"Year", "Total_Assets", "Current_Assets", "Fixed_Assets",
            "Current_Liabilities", "Long_Term_Debt", "Shareholders_Equity"} |->
        [i \in 1..n |-> IF c = "Year" THEN Num(FirstYear + i - 1) ELSE ys[i][c]]]

NoTable == [c \in {} |-> <<>>]
NoTrends == [improving |-> {}, declining |-> {}, stable |-> {}]

NoArgument == [m \in {} |-> Num(0)]

\* A call and what it gives its caller: the argument it was given (arg), the
\* frame or the trend lists it returns, the exception it raises (err), and
\* the warnings it issues (no method issues one).
Returned(op, table) ==
    [op |-> op, arg |-> NoArgument, err |-> "", table |-> table,
     trends |-> NoTrends, warnings |-> {}]
ReturnedTrends(op, trends) ==
    [op |-> op, arg |-> NoArgument, err |-> "", table |-> NoTable,
     trends |-> trends, warnings |-> {}]
\* A failing call that raises nothing and returns an empty frame.
RaisedSilently(op, err) ==
    [op |-> op, arg |-> NoArgument, err |-> "", table |-> NoTable,
     trends |-> NoTrends, warnings |-> {}]
Raised(op, err) ==
    [op |-> op, arg |-> NoArgument, err |-> err, table |-> NoTable,
     trends |-> NoTrends, warnings |-> {}]

\* A call of the extractor and what it gives its caller: the frame, the
\* validation results or the summary it returns.
NoValidation == [k \in {} |-> TRUE]
NoSummary == [section \in {} |-> {}]
Extracted(op, table, validation, summary) ==
    [op |-> op, table |-> table, validation |-> validation, summary |-> summary]

\* FinancialDataExtractor(): nothing is loaded.
ExtractorConstructed ==
    /\ financial_data = <<>>
    /\ extracted = Extracted("__init__", NoTable, NoValidation, NoSummary)

\* FinancialRatioAnalyzer(income_df, balance_df): the frames are kept as
\* given (no check of their shapes), and no ratio is stored.  The two frames
\* hold the same years, or one of them lacks the last year.  The extractor
\* is not used.
Init ==
    /\ \E n \in 1..MaxYears :
         \E ys \in [1..n -> YearRows] :
           \E ni, nb \in (IF n = 1 THEN {1} ELSE {n - 1, n}) :
               /\ Max(ni, nb) = n
               /\ income = IncomeFrame(ys, ni)
               /\ balance = BalanceFrame(ys, nb)
    /\ fill_method \in {"pad", "none"}
    /\ ratios = [c \in {} |-> NoTable]
    /\ result = Returned("__init__", NoTable)
    /\ ExtractorConstructed

\* Store that starts the dict afresh.
StoreAlone(category, table) == [c \in {category} |-> table]

Store(category, table) ==
    [c \in DOMAIN ratios \cup {category} |-> IF c = category THEN table ELSE ratios[c]]

\* Profitability with ROE_% divided by Total_Assets, as ROA_% is.
ProfitabilityRoeOnAssets(inc, bal) ==
    LET profitability ==
            MakeFrame("Year" :> inc["Year"]
                @@ "Gross_Margin_%" :> SScale(SDiv(inc["Gross_Profit"], inc["Revenue"]), Hundred)
                @@ "EBIT_Margin_%" :> SScale(SDiv(inc["EBIT"], inc["Revenue"]), Hundred)
                @@ "Net_Margin_%" :> SScale(SDiv(inc["Net_Income"], inc["Revenue"]), Hundred))
        roa == SetColumn(profitability, "ROA_%",
                   SScale(SDiv(inc["Net_Income"], bal["Total_Assets"]), Hundred))
    IN SetColumn(roa, "ROE_%",
           SScale(SDiv(inc["Net_Income"], bal["Total_Assets"]), Hundred))

Profitability(inc, bal) ==
    LET profitability ==
            MakeFrame("Year" :> inc["Year"]
                @@ "Gross_Margin_%" :> SScale(SDiv(inc["Gross_Profit"], inc["Revenue"]), Hundred)
                @@ "EBIT_Margin_%" :> SScale(SDiv(inc["EBIT"], inc["Revenue"]), Hundred)
                @@ "Net_Margin_%" :> SScale(SDiv(inc["Net_Income"], inc["Revenue"]), Hundred))
        roa == SetColumn(profitability, "ROA_%",
                   SScale(SDiv(inc["Net_Income"], bal["Total_Assets"]), Hundred))
    IN SetColumn(roa, "ROE_%",
           SScale(SDiv(inc["Net_Income"], bal["Shareholders_Equity"]), Hundred))

calculate_profitability_ratios ==
    LET profitability == Profitability(income, balance)
    IN /\ ratios' = Store("profitability", profitability)
       /\ result' = Returned("calculate_profitability_ratios", profitability)
       /\ UNCHANGED <<income, balance, fill_method, financial_data, extracted>>

Liquidity(inc, bal) ==
    LET liquidity ==
            MakeFrame("Year" :> bal["Year"]
                @@ "Current_Ratio" :> SDiv(bal["Current_Assets"], bal["Current_Liabilities"])
                @@ "Working_Capital" :> SSub(bal["Current_Assets"], bal["Current_Liabilities"]))
    IN SetColumn(liquidity, "WC_to_Revenue_%",
           SScale(SDiv(liquidity["Working_Capital"], inc["Revenue"]), Hundred))

calculate_liquidity_ratios ==
    LET liquidity == Liquidity(income, balance)
    IN /\ ratios' = Store("liquidity", liquidity)
       /\ result' = Returned("calculate_liquidity_ratios", liquidity)
       /\ UNCHANGED <<income, balance, fill_method, financial_data, extracted>>

Leverage(inc, bal) ==
    LET leverage ==
            MakeFrame("Year" :> bal["Year"]
                @@ "Debt_to_Equity" :> SDiv(bal["Long_Term_Debt"], bal["Shareholders_Equity"])
                @@ "Debt_to_Assets" :> SDiv(bal["Long_Term_Debt"], bal["Total_Assets"])
                @@ "Equity_Multiplier" :> SDiv(bal["Total_Assets"], bal["Shareholders_Equity"]))
    IN SetColumn(leverage, "Interest_Coverage",
           SDiv(inc["EBIT"], inc["Interest_Expense"]))

calculate_leverage_ratios ==
    LET leverage == Leverage(income, balance)
    IN /\ ratios' = Store("leverage", leverage)
       /\ result' = Returned("calculate_leverage_ratios", leverage)
       /\ UNCHANGED <<income, balance, fill_method, financial_data, extracted>>

Efficiency(inc, bal, fill) ==
    LET efficiency ==
            MakeFrame("Year" :> inc["Year"]
                @@ "Asset_Turnover" :> SDiv(inc["Revenue"], bal["Total_Assets"])
                @@ "Fixed_Asset_Turnover" :> SDiv(inc["Revenue"], bal["Fixed_Assets"]))
    IN SetColumn(efficiency, "Asset_Turnover_Change_%",
           SScale(PctChange(efficiency["Asset_Turnover"], fill), Hundred))

calculate_efficiency_ratios ==
    LET efficiency == Efficiency(income, balance, fill_method)
    IN /\ ratios' = Store("efficiency", efficiency)
       /\ result' = Returned("calculate_efficiency_ratios", efficiency)
       /\ UNCHANGED <<income, balance, fill_method, financial_data, extracted>>

\* DuPont with the margin left in percent in the product.
DuPontMarginInPercent(inc, bal) ==
    LET dupont ==
            MakeFrame("Year" :> inc["Year"]
                @@ "Net_Margin_%" :> SScale(SDiv(inc["Net_Income"], inc["Revenue"]), Hundred)
                @@ "Asset_Turnover" :> SDiv(inc["Revenue"], bal["Total_Assets"])
                @@ "Equity_Multiplier" :> SDiv(bal["Total_Assets"], bal["Shareholders_Equity"]))
        calculated ==
            SetColumn(dupont, "ROE_Calculated_%",
                SScale(SMul(SMul(dupont["Net_Margin_%"], dupont["Asset_Turnover"]),
                            dupont["Equity_Multiplier"]),
                       Hundred))
    IN SetColumn(calculated, "ROE_Actual_%",
           SScale(SDiv(inc["Net_Income"], bal["Shareholders_Equity"]), Hundred))

DuPont(inc, bal) ==
    LET dupont ==
            MakeFrame("Year" :> inc["Year"]
                @@ "Net_Margin_%" :> SScale(SDiv(inc["Net_Income"], inc["Revenue"]), Hundred)
                @@ "Asset_Turnover" :> SDiv(inc["Revenue"], bal["Total_Assets"])
                @@ "Equity_Multiplier" :> SDiv(bal["Total_Assets"], bal["Shareholders_Equity"]))
        calculated ==
            SetColumn(dupont, "ROE_Calculated_%",
                SScale(SMul(SMul(SUnscale(dupont["Net_Margin_%"], Hundred),
                                 dupont["Asset_Turnover"]),
                            dupont["Equity_Multiplier"]),
                       Hundred))
    IN SetColumn(calculated, "ROE_Actual_%",
           SScale(SDiv(inc["Net_Income"], bal["Shareholders_Equity"]), Hundred))

\* The frame is returned and not stored; the two ROE columns are never compared.
analyze_dupont_model ==
    /\ result' = Returned("analyze_dupont_model", DuPont(income, balance))
    /\ UNCHANGED <<income, balance, fill_method, ratios, financial_data, extracted>>

Threshold == Fin(1, 10)

\* Trend without the guard on a zero first value.
TrendUnguarded(values) ==
    Div(Sub(values[Len(values)], values[1]), Abs(values[1]))

\* (last - first) / abs(first) of the defined values, 0 when the first is 0.
Trend(values) ==
    LET first == values[1]
        last == values[Len(values)]
    IN IF Ne(first, Num(0)) THEN Div(Sub(last, first), Abs(first)) ELSE Num(0)

\* Classify with inclusive comparisons.
ClassifyInclusive(trend) ==
    IF ~Lt(trend, Threshold) /\ ~IsNaN(trend) THEN "improving"
    ELSE IF ~Gt(trend, Neg(Threshold)) /\ ~IsNaN(trend) THEN "declining"
    ELSE "stable"

Classify(trend) ==
    IF Gt(trend, Threshold) THEN "improving"
    ELSE IF Lt(trend, Neg(Threshold)) THEN "declining"
    ELSE "stable"

\* The series the classifier looks at: every column but Year of every stored
\* frame (all of them are float64 or int64), named <<category, column>> for
\* the string "category.column".
SeriesOf(stored) ==
    UNION {{<<category, col>> : col \in DOMAIN stored[category] \ {"Year"}} :
              category \in DOMAIN stored}

\* The three lists as sets: their order (that of the dict's insertion and of
\* the frames' columns) is not modelled.
\* The lists with a series of a single value classified too.
TrendsOfOneValue(stored) ==
    LET labelled(label) ==
            {x \in SeriesOf(stored) :
                LET values == DropNa(stored[x[1]][x[2]])
                IN Len(values) > 0 /\ Classify(Trend(values)) = label}
    IN [improving |-> labelled("improving"),
        declining |-> labelled("declining"),
        stable |-> labelled("stable")]

Trends(stored) ==
    LET labelled(label) ==
            {x \in SeriesOf(stored) :
                LET values == DropNa(stored[x[1]][x[2]])
                IN Len(values) > 1 /\ Classify(Trend(values)) = label}
    IN [improving |-> labelled("improving"),
        declining |-> labelled("declining"),
        stable |-> labelled("stable")]

identify_ratio_trends ==
    /\ result' = ReturnedTrends("identify_ratio_trends", Trends(ratios))
    /\ UNCHANGED <<income, balance, fill_method, ratios, financial_data, extracted>>

\* self.ratios[...] of a category not yet calculated raises KeyError; the
\* dict literal is evaluated in this order.
SummaryNeeds == <<"profitability", "profitability", "profitability",
                  "liquidity", "leverage", "efficiency">>

MissingKey(stored) ==
    LET missing == {i \in 1..Len(SummaryNeeds) : SummaryNeeds[i] \notin DOMAIN stored}
    IN IF missing = {} THEN ""
       ELSE SummaryNeeds[CHOOSE i \in missing : \A j \in missing : i <= j]

Summary(inc, stored) ==
    MakeFrame("Year" :> inc["Year"]
        @@ "Gross_Margin_%" :> stored["profitability"]["Gross_Margin_%"]
        @@ "EBIT_Margin_%" :> stored["profitability"]["EBIT_Margin_%"]
        @@ "ROE_%" :> stored["profitability"]["ROE_%"]
        @@ "Current_Ratio" :> stored["liquidity"]["Current_Ratio"]
        @@ "Debt_to_Equity" :> stored["leverage"]["Debt_to_Equity"]
        @@ "Asset_Turnover" :> stored["efficiency"]["Asset_Turnover"])

generate_ratio_summary ==
    /\ result' = IF MissingKey(ratios) # ""
                 THEN Raised("generate_ratio_summary", MissingKey(ratios))
                 ELSE Returned("generate_ratio_summary", Summary(income, ratios))
    /\ UNCHANGED <<income, balance, fill_method, ratios, financial_data, extracted>>

\* Default industry benchmarks for UK retail.
DefaultBenchmarks ==
    "Gross_Margin_%" :> Num(35) @@ "EBIT_Margin_%" :> Num(5) @@ "ROE_%" :> Num(12)
        @@ "Current_Ratio" :> Fin(15, 10) @@ "Debt_to_Equity" :> Num(1)
        @@ "Asset_Turnover" :> Fin(12, 10)

\* " vs Industry" and " Performance" columns of a metric: <<metric, suffix>>
\* stands for the string metric + suffix.
\* Performance with a tie counted as Above.
PerformanceTieAbove(x) == IF Gt(x, Num(0)) \/ x = Num(0) THEN "Above" ELSE "Below"

Performance(x) == IF Gt(x, Num(0)) THEN "Above" ELSE "Below"

\* The comparison without the default benchmarks for an empty mapping.
BenchmarkNoDefaults(summary, industry_benchmarks) ==
    LET metrics == DOMAIN industry_benchmarks \cap DOMAIN summary
        vs(metric) == [i \in 1..Rows(summary) |->
                          Sub(summary[metric][i], industry_benchmarks[metric])]
    IN [c \in {<<"Year", "">>} \cup (metrics \X {"_vs_Industry", "_Performance"}) |->
           IF c[1] = "Year" /\ c[2] = "" THEN summary["Year"]
           ELSE IF c[2] = "_vs_Industry" THEN vs(c[1])
           ELSE [i \in 1..Rows(summary) |-> Performance(vs(c[1])[i])]]

Benchmark(summary, industry_benchmarks) ==
    LET benchmarks == IF DOMAIN industry_benchmarks = {} THEN DefaultBenchmarks
                      ELSE industry_benchmarks
        metrics == DOMAIN benchmarks \cap DOMAIN summary
        vs(metric) == [i \in 1..Rows(summary) |->
                          Sub(summary[metric][i], benchmarks[metric])]
    IN [c \in {<<"Year", "">>} \cup (metrics \X {"_vs_Industry", "_Performance"}) |->
           IF c[1] = "Year" /\ c[2] = "" THEN summary["Year"]
           ELSE IF c[2] = "_vs_Industry" THEN vs(c[1])
           ELSE [i \in 1..Rows(summary) |-> Performance(vs(c[1])[i])]]

\* The mappings a caller passes: none ({} or None), one whose Gross_Margin_%
\* benchmark some year equals, one that names a metric the summary does not
\* have, and one that names the summary's Year column.
BenchmarkInputs ==
    { NoArgument,
      "Gross_Margin_%" :> Num(40) @@ "Asset_Turnover" :> Num(1),
      "ROE_%" :> Num(100) @@ "Quick_Ratio" :> Num(1),
      "Year" :> Num(FirstYear) @@ "Current_Ratio" :> Fin(15, 10) }

benchmark_against_industry ==
    \E industry_benchmarks \in BenchmarkInputs :
        /\ result' = [(IF MissingKey(ratios) # ""
                         THEN Raised("benchmark_against_industry", MissingKey(ratios))
                         ELSE Returned("benchmark_against_industry",
                                  Benchmark(Summary(income, ratios), industry_benchmarks)))
                           EXCEPT !.arg = industry_benchmarks]
        /\ UNCHANGED <<income, balance, fill_method, ratios, financial_data, extracted>>

\* An export that empties self.ratios once it has gone through it.
export_ratios_clearing ==
    /\ result' = Returned("export_ratios", NoTable)
    /\ ratios' = [c \in {} |-> NoTable]
    /\ UNCHANGED <<income, balance, fill_method, financial_data, extracted>>

\* The CSV writing is commented out: nothing is written, nothing changes.
export_ratios ==
    /\ result' = Returned("export_ratios", NoTable)
    /\ UNCHANGED <<income, balance, fill_method, ratios, financial_data, extracted>>

Next ==
    \/ calculate_profitability_ratios
    \/ calculate_liquidity_ratios
    \/ calculate_leverage_ratios
    \/ calculate_efficiency_ratios
    \/ analyze_dupont_model
    \/ identify_ratio_trends
    \/ generate_ratio_summary
    \/ benchmark_against_industry
    \/ export_ratios

Spec == Init /\ [][Next]_vars

\* The Year columns a caller may pass: any years of FirstYear, FirstYear + 1,
\* so also the same year twice and years that decrease.
YearColumns(n) == [1..n -> {FirstYear, FirstYear + 1}]

\* The frame with years as its Year column.
WithYears(df, years) == [df EXCEPT !["Year"] = [i \in 1..Rows(df) |-> Num(years[i])]]

\* FinancialRatioAnalyzer(income_df, balance_df) on frames whose Year columns
\* are whatever the caller wrote: the constructor does not look at them.
InitAnyYears ==
    /\ \E n \in 1..MaxYears :
         \E ys \in [1..n -> YearRows], years \in YearColumns(n) :
           \E ni, nb \in (IF n = 1 THEN {1} ELSE {n - 1, n}) :
               /\ Max(ni, nb) = n
               /\ income = WithYears(IncomeFrame(ys, ni), years)
               /\ balance = WithYears(BalanceFrame(ys, nb), years)
    /\ fill_method \in {"pad", "none"}
    /\ ratios = [c \in {} |-> NoTable]
    /\ result = Returned("__init__", NoTable)
    /\ ExtractorConstructed

SpecAnyYears == InitAnyYears /\ [][Next]_vars

----------------------------------------------------------------------------
(* the extractor *)

Years == <<Num(2015), Num(2016), Num(2017), Num(2018)>>

\* income_data, balance_data and cash_flow_data as written in the source.
IncomeData ==
    "Year" :> Years
        @@ "Revenue" :> <<T(7849), T(8266), T(8363), T(5731)>>
        @@ "COGS" :> <<T(3247), T(3424), T(3532), T(3489)>>
        @@ "Gross_Profit" :> <<T(4602), T(4842), T(4831), T(2242)>>
        @@ "Operating_Expenses" :> <<T(4355), T(4652), T(4513), T(4513)>>
        @@ "EBIT" :> <<T(247), T(190), T(318), T(-4)>>
        @@ "Interest_Expense" :> <<T(155), T(185), T(197), T(198)>>
        @@ "Tax" :> <<T(67), T(-179), T(-26), T(-220)>>
        @@ "Net_Income" :> <<T(25), T(184), T(147), T(22)>>

BalanceData ==
    "Year" :> Years
        @@ "Total_Assets" :> <<Num(1250), Num(1320), Num(1290), Num(980)>>
        @@ "Current_Assets" :> <<Num(450), Num(480), Num(460), Num(320)>>
        @@ "Fixed_Assets" :> <<Num(800), Num(840), Num(830), Num(660)>>
        @@ "Total_Liabilities" :> <<Num(950), Num(1020), Num(1010), Num(820)>>
        @@ "Current_Liabilities" :> <<Num(380), Num(410), Num(395), Num(290)>>
        @@ "Long_Term_Debt" :> <<Num(570), Num(610), Num(615), Num(530)>>
        @@ "Shareholders_Equity" :> <<Num(300), Num(300), Num(280), Num(160)>>

CashFlowData ==
    "Year" :> Years
        @@ "Operating_Cash_Flow" :> <<Num(45), Num(52), Num(48), Num(15)>>
        @@ "Investing_Cash_Flow" :> <<Num(-35), Num(-42), Num(-38), Num(-12)>>
        @@ "Financing_Cash_Flow" :> <<Num(-15), Num(-8), Num(-12), Num(-5)>>
        @@ "Net_Cash_Change" :> <<Num(-5), Num(2), Num(-2), Num(-2)>>
        @@ "Free_Cash_Flow" :> <<Num(10), Num(10), Num(10), Num(3)>>

\* The income-statement frame with its four derived columns.
IncomeStatement(fill) ==
    LET df == MakeFrame(IncomeData)
        gross == SetColumn(df, "Gross_Margin",
                     SScale(SDiv(df["Gross_Profit"], df["Revenue"]), Hundred))
        ebit == SetColumn(gross, "EBIT_Margin",
                    SScale(SDiv(df["EBIT"], df["Revenue"]), Hundred))
        net == SetColumn(ebit, "Net_Margin",
                   SScale(SDiv(df["Net_Income"], df["Revenue"]), Hundred))
    IN SetColumn(net, "Revenue_Growth", SScale(PctChange(df["Revenue"], fill), Hundred))

\* The balance-sheet frame with its three derived columns; Asset_Turnover is
\* a list of literal quotients.
BalanceSheet ==
    LET df == MakeFrame(BalanceData)
        current == SetColumn(df, "Current_Ratio",
                       SDiv(df["Current_Assets"], df["Current_Liabilities"]))
        debt == SetColumn(current, "Debt_to_Equity",
                    SDiv(df["Long_Term_Debt"], df["Shareholders_Equity"]))
    IN SetColumn(debt, "Asset_Turnover",
           <<Div(T(7849), Num(1250)), Div(T(8266), Num(1320)),
             Div(T(8363), Num(1290)), Div(T(5731), Num(980))>>)

\* The cash-flow frame with its two derived columns.
CashFlow ==
    LET df == MakeFrame(CashFlowData)
        net_income == <<T(25), T(184), T(147), T(22)>>
        ocf == SetColumn(df, "OCF_to_NI", SDiv(df["Operating_Cash_Flow"], net_income))
    IN SetColumn(ocf, "FCF_Margin",
           SScale(SDiv(df["Free_Cash_Flow"], <<T(7849), T(8266), T(8363), T(5731)>>),
                  Hundred))

\* self.financial_data[name] = df: a new key goes last, a key that is there
\* keeps its place.
SetItem(data, name, df) ==
    IF \E i \in 1..Len(data) : data[i].name = name
    THEN [i \in 1..Len(data) |->
             IF data[i].name = name THEN [name |-> name, df |-> df] ELSE data[i]]
    ELSE Append(data, [name |-> name, df |-> df])

\* self.financial_data.get(name) is not None
Loaded(data, name) == \E i \in 1..Len(data) : data[i].name = name

\* self.financial_data.get(name)
Get(data, name) == data[CHOOSE i \in 1..Len(data) : data[i].name = name].df

load_income_statements ==
    LET df == IncomeStatement(fill_method)
    IN /\ financial_data' = SetItem(financial_data, "income_statement", df)
       /\ extracted' = Extracted("load_income_statements", df, NoValidation, NoSummary)
       /\ UNCHANGED <<income, balance, fill_method, ratios, result>>

load_balance_sheets ==
    /\ financial_data' = SetItem(financial_data, "balance_sheet", BalanceSheet)
    /\ extracted' = Extracted("load_balance_sheets", BalanceSheet, NoValidation, NoSummary)
    /\ UNCHANGED <<income, balance, fill_method, ratios, result>>

calculate_cash_flow_metrics ==
    /\ financial_data' = SetItem(financial_data, "cash_flow", CashFlow)
    /\ extracted' = Extracted("calculate_cash_flow_metrics", CashFlow, NoValidation, NoSummary)
    /\ UNCHANGED <<income, balance, fill_method, ratios, result>>

\* df.isnull().sum().sum() > 0: some cell is NaN (an infinite cell is not null).
HasMissing(df) == \E c \in DOMAIN df : \E i \in 1..Len(df[c]) : IsNaN(df[c][i])

\* abs(assets - liabilities_equity) > 1 in row i of the balance sheet.
Imbalanced(bs, i) ==
    Gt(Abs(Sub(bs["Total_Assets"][i],
               Add(bs["Total_Liabilities"][i], bs["Shareholders_Equity"][i]))),
       Num(1))

\* f"{row['Year']}": iterrows gives the row as float64, so 2015 prints as 2015.0.
YearText(year) == ToString(year.n) \o ".0"

\* The validation that looks for missing values in the first table only.
ValidationOfFirstTable(data) ==
    LET missing == IF Len(data) > 0 /\ HasMissing(data[1].df) THEN <<data[1]>> ELSE <<>>
    IN [completeness |-> missing = <<>>,
        consistency |-> TRUE,
        accuracy |-> TRUE,
        issues |-> [i \in 1..Len(missing) |-> "Missing values in " \o missing[i].name]]

\* validation_results: one issue for each table with a missing value, in the
\* order of the dict, then one for each imbalanced row of the balance sheet.
Validation(data) ==
    LET missing == SelectSeq(data, LAMBDA e : HasMissing(e.df))
        rows == IF Loaded(data, "balance_sheet")
                THEN SelectSeq([i \in 1..Rows(Get(data, "balance_sheet")) |-> i],
                               LAMBDA i : Imbalanced(Get(data, "balance_sheet"), i))
                ELSE <<>>
    IN [completeness |-> missing = <<>>,
        consistency |-> rows = <<>>,
        accuracy |-> TRUE,
        issues |->
            [i \in 1..Len(missing) |-> "Missing values in " \o missing[i].name]
            \o [i \in 1..Len(rows) |->
                   "Balance sheet imbalance in "
                       \o YearText(Get(data, "balance_sheet")["Year"][rows[i]])]]

validate_data_quality ==
    /\ extracted' = Extracted("validate_data_quality", NoTable,
                        Validation(financial_data), NoSummary)
    /\ UNCHANGED <<income, balance, fill_method, ratios, result, financial_data>>

\* The summary dict by its keys: the statistics themselves (means, a
\* standard deviation) are not represented.
SummaryStatistics(data) ==
    IF Loaded(data, "income_statement")
    THEN "revenue" :> {"mean", "std", "min", "max", "total_change", "pct_change"}
             @@ "profitability" :> {"avg_gross_margin", "avg_ebit_margin", "avg_net_margin"}
    ELSE NoSummary

generate_summary_statistics ==
    /\ extracted' = Extracted("generate_summary_statistics", NoTable, NoValidation,
                        SummaryStatistics(financial_data))
    /\ UNCHANGED <<income, balance, fill_method, ratios, result, financial_data>>

\* The CSV writing is commented out: nothing is written, nothing changes.
export_processed_data ==
    /\ extracted' = Extracted("export_processed_data", NoTable, NoValidation, NoSummary)
    /\ UNCHANGED <<income, balance, fill_method, ratios, result, financial_data>>

\* FinancialDataExtractor() in a program that makes no analyzer.
InitExtractor ==
    /\ ExtractorConstructed
    /\ fill_method \in {"pad", "none"}
    /\ income = NoTable
    /\ balance = NoTable
    /\ ratios = [c \in {} |-> NoTable]
    /\ result = Returned("__init__", NoTable)

NextExtractor ==
    \/ load_income_statements
    \/ load_balance_sheets
    \/ calculate_cash_flow_metrics
    \/ validate_data_quality
    \/ generate_summary_statistics
    \/ export_processed_data

SpecExtractor == InitExtractor /\ [][NextExtractor]_vars

----------------------------------------------------------------------------
(* properties *)

\* The operation that calculates each category.
CalculateOp ==
    "profitability" :> "calculate_profitability_ratios"
        @@ "liquidity" :> "calculate_liquidity_ratios"
        @@ "leverage" :> "calculate_leverage_ratios"
        @@ "efficiency" :> "calculate_efficiency_ratios"

Defined(s) == {i \in 1..Len(s) : ~IsNaN(s[i])}
FirstDefined(s) == s[CHOOSE i \in Defined(s) : \A j \in Defined(s) : i <= j]
LastDefined(s) == s[CHOOSE i \in Defined(s) : \A j \in Defined(s) : j <= i]

Stored(x) == ratios[x[1]][x[2]]

TrendsCalled == result.op = "identify_ratio_trends"

\* The label the last identify_ratio_trends call gave series x, "" if none.
LabelOf(x) ==
    IF x \in result.trends.improving THEN "improving"
    ELSE IF x \in result.trends.declining THEN "declining"
    ELSE IF x \in result.trends.stable THEN "stable"
    ELSE ""

\* 10 * (l - f) compared with |f| and -|f|, on the integers of the two
\* fractions brought to their common denominator.
TenTimesChange(f, l) ==
    LET g == GCD(f.d, l.d) IN 10 * (l.n * (f.d \div g) - f.n * (l.d \div g))
BandOf(f, l) ==
    LET g == GCD(f.d, l.d) IN AbsInt(f.n) * (l.d \div g)

ExpectedLabel(f, l) ==
    IF TenTimesChange(f, l) > BandOf(f, l) THEN "improving"
    ELSE IF TenTimesChange(f, l) < -BandOf(f, l) THEN "declining"
    ELSE "stable"

Pair(a, b) == <<Num(a), Num(b)>>

\* C1: identify_ratio_trends labels a series whose first defined value is
\* non-zero by its relative change (last - first)/|first|: improving when the
\* change exceeds 10%, declining when it is below -10%, stable otherwise,
\* both comparisons strict ([100,130] improving, [100,95] stable, [100,85]
\* declining, [40,44] and [5,4.5] stable).
C1_TrendClassification ==
    TrendsCalled =>
        /\ \A x \in SeriesOf(ratios) :
             LET s == Stored(x) IN
               (/\ Cardinality(Defined(s)) > 1
                /\ IsFinite(FirstDefined(s)) /\ IsFinite(LastDefined(s))
                /\ FirstDefined(s).n # 0)
                   => LabelOf(x) = ExpectedLabel(FirstDefined(s), LastDefined(s))
        /\ \A x \in SeriesOf(ratios) :
             /\ Stored(x) = Pair(100, 130) => LabelOf(x) = "improving"
             /\ Stored(x) = Pair(100, 95) => LabelOf(x) = "stable"
             /\ Stored(x) = Pair(100, 85) => LabelOf(x) = "declining"
             /\ Stored(x) = Pair(40, 44) => LabelOf(x) = "stable"
             /\ Stored(x) = <<Num(5), Fin(9, 2)>> => LabelOf(x) = "stable"

\* The classifier has run on the three series of the example, on a series
\* that changes by exactly +10% and on one that changes by exactly -10%.
C1_Witness ==
    /\ TrendsCalled
    /\ DOMAIN ratios = Categories
    /\ ratios["liquidity"]["Working_Capital"] = Pair(100, 130)
    /\ ratios["leverage"]["Interest_Coverage"] = Pair(100, 95)
    /\ ratios["profitability"]["ROE_%"] = Pair(100, 85)
    /\ ratios["profitability"]["Gross_Margin_%"] = Pair(40, 44)
    /\ ratios["leverage"]["Debt_to_Equity"] = <<Num(5), Fin(9, 2)>>
    /\ <<"liquidity", "Working_Capital">> \in result.trends.improving
    /\ <<"profitability", "Gross_Margin_%">> \in result.trends.stable

ZeroFirst(x) ==
    /\ Cardinality(Defined(Stored(x))) > 1
    /\ FirstDefined(Stored(x)) = Num(0)

\* C6: a series whose first defined value is 0 is classified stable whatever
\* its last value is.
C6_ZeroFirstIsStable ==
    TrendsCalled =>
        \A x \in SeriesOf(ratios) : ZeroFirst(x) => LabelOf(x) = "stable"

\* The classifier has run on a series that starts at 0 and ends at a finite
\* non-zero value, and on one that starts at 0 and ends infinite.
C6_Witness ==
    /\ TrendsCalled
    /\ \E x \in SeriesOf(ratios) :
         ZeroFirst(x) /\ IsFinite(LastDefined(Stored(x))) /\ LastDefined(Stored(x)).n # 0
    /\ \E x \in SeriesOf(ratios) : ZeroFirst(x) /\ IsInf(LastDefined(Stored(x)))

BenchmarkReturned == result.op = "benchmark_against_industry" /\ result.err = ""

\* The benchmarks the last benchmark_against_industry call compared with.
Compared == IF DOMAIN result.arg = {} THEN DefaultBenchmarks ELSE result.arg

\* Where each column of the summary comes from.
SummarySource ==
    "Gross_Margin_%" :> <<"profitability", "Gross_Margin_%">>
        @@ "EBIT_Margin_%" :> <<"profitability", "EBIT_Margin_%">>
        @@ "ROE_%" :> <<"profitability", "ROE_%">>
        @@ "Current_Ratio" :> <<"liquidity", "Current_Ratio">>
        @@ "Debt_to_Equity" :> <<"leverage", "Debt_to_Equity">>
        @@ "Asset_Turnover" :> <<"efficiency", "Asset_Turnover">>

Actual(metric, i) == At(Stored(SummarySource[metric]), i)

StrictlyAbove(a, b) ==
    \/ a.k = "pinf"
    \/ a.k = "fin" /\ a.n * b.d > b.n * a.d

PerformanceOf(metric, i) == result.table[<<metric, "_Performance">>][i]

BenchmarkCells ==
    {<<metric, i>> \in (DOMAIN Compared \cap DOMAIN SummarySource)
                          \X (1..Max(Rows(income), Rows(balance))) : TRUE}

\* C7: benchmark_against_industry labels a year of a metric Above when its
\* actual value is strictly greater than the benchmark and Below otherwise:
\* a year that equals the benchmark, and a year with an undefined value, are
\* Below.
C7_AboveOnlyIfStrictlyGreater ==
    BenchmarkReturned =>
        \A c \in BenchmarkCells :
            /\ PerformanceOf(c[1], c[2]) =
                   (IF StrictlyAbove(Actual(c[1], c[2]), Compared[c[1]])
                    THEN "Above" ELSE "Below")
            /\ Actual(c[1], c[2]) = Compared[c[1]] => PerformanceOf(c[1], c[2]) = "Below"
            /\ IsNaN(Actual(c[1], c[2])) => PerformanceOf(c[1], c[2]) = "Below"

\* One benchmark table with a year that equals its benchmark, a year whose
\* value is undefined, and a year above its benchmark.
C7_Witness ==
    /\ BenchmarkReturned
    /\ \E c \in BenchmarkCells :
         Actual(c[1], c[2]) = Compared[c[1]] /\ PerformanceOf(c[1], c[2]) = "Below"
    /\ \E c \in BenchmarkCells :
         IsNaN(Actual(c[1], c[2])) /\ PerformanceOf(c[1], c[2]) = "Below"
    /\ \E c \in BenchmarkCells : PerformanceOf(c[1], c[2]) = "Above"

\* The two tables hold the same years in the same rows.
Aligned == Rows(income) = Rows(balance) /\ income["Year"] = balance["Year"]

\* cell is num / den * scale: cell * den = num * scale when den is not 0,
\* and not a finite number when it is.
IsRatio(cell, num, den, scale) ==
    IF den.n # 0
    THEN IsFinite(cell) /\ Mul(cell, den) = Mul(num, Num(scale))
    ELSE ~IsFinite(cell)

ProfitabilityRow(t, y) ==
    /\ IsRatio(t["Gross_Margin_%"][y], income["Gross_Profit"][y], income["Revenue"][y], 100)
    /\ IsRatio(t["EBIT_Margin_%"][y], income["EBIT"][y], income["Revenue"][y], 100)
    /\ IsRatio(t["Net_Margin_%"][y], income["Net_Income"][y], income["Revenue"][y], 100)
    /\ IsRatio(t["ROA_%"][y], income["Net_Income"][y], balance["Total_Assets"][y], 100)
    /\ IsRatio(t["ROE_%"][y], income["Net_Income"][y], balance["Shareholders_Equity"][y], 100)

LiquidityRow(t, y) ==
    /\ IsRatio(t["Current_Ratio"][y], balance["Current_Assets"][y],
               balance["Current_Liabilities"][y], 1)
    /\ Add(t["Working_Capital"][y], balance["Current_Liabilities"][y])
           = balance["Current_Assets"][y]
    /\ IsRatio(t["WC_to_Revenue_%"][y],
               Sub(balance["Current_Assets"][y], balance["Current_Liabilities"][y]),
               income["Revenue"][y], 100)
    /\ (balance["Current_Assets"][y] = Num(450)
            /\ balance["Current_Liabilities"][y] = Num(380))
         => /\ Lt(Fin(118415, 100000), t["Current_Ratio"][y])
            /\ Lt(t["Current_Ratio"][y], Fin(118425, 100000))

LeverageRow(t, y) ==
    /\ IsRatio(t["Debt_to_Equity"][y], balance["Long_Term_Debt"][y],
               balance["Shareholders_Equity"][y], 1)
    /\ IsRatio(t["Debt_to_Assets"][y], balance["Long_Term_Debt"][y],
               balance["Total_Assets"][y], 1)
    /\ IsRatio(t["Equity_Multiplier"][y], balance["Total_Assets"][y],
               balance["Shareholders_Equity"][y], 1)
    /\ IsRatio(t["Interest_Coverage"][y], income["EBIT"][y],
               income["Interest_Expense"][y], 1)

EfficiencyRow(t, y) ==
    /\ IsRatio(t["Asset_Turnover"][y], income["Revenue"][y], balance["Total_Assets"][y], 1)
    /\ IsRatio(t["Fixed_Asset_Turnover"][y], income["Revenue"][y],
               balance["Fixed_Assets"][y], 1)

RowHolds(category, t, y) ==
    CASE category = "profitability" -> ProfitabilityRow(t, y)
      [] category = "liquidity" -> LiquidityRow(t, y)
      [] category = "leverage" -> LeverageRow(t, y)
      [] category = "efficiency" -> EfficiencyRow(t, y)

\* C8: with row-aligned inputs the table a calculate_* operation returns and
\* stores has the input years in the input order, and each of its cells
\* (Asset_Turnover_Change_% aside) is its formula applied to that year's own
\* income and balance fields; 450/380 gives a Current_Ratio of 1.1842.
C8_PerYearFormulas ==
    Aligned =>
        \A category \in DOMAIN ratios :
            result.op = CalculateOp[category] =>
                /\ ratios[category] = result.table
                /\ result.table["Year"] = income["Year"]
                /\ \A col \in DOMAIN result.table :
                       Len(result.table[col]) = Rows(income)
                /\ \A y \in 1..Rows(income) : RowHolds(category, result.table, y)

\* calculate_liquidity_ratios has returned, last of the four, for aligned
\* inputs of more than one year, one of which has Current_Assets 450 and
\* Current_Liabilities 380.
C8_Witness ==
    /\ Aligned
    /\ Rows(income) > 1
    /\ DOMAIN ratios = Categories
    /\ result.op = "calculate_liquidity_ratios"
    /\ \E y \in 1..Rows(income) :
         /\ balance["Current_Assets"][y] = Num(450)
         /\ balance["Current_Liabilities"][y] = Num(380)
         /\ ratios["liquidity"]["Current_Ratio"][y] = Fin(45, 38)
         /\ \E z \in 1..Rows(income) :
              balance["Shareholders_Equity"][z] # balance["Shareholders_Equity"][y]

DuPontReturned == result.op = "analyze_dupont_model" /\ result.err = ""

\* Equal within tolerance: two numbers (NaN is no number) that are equal.
Agree(a, b) == ~IsNaN(a) /\ ~IsNaN(b) /\ a = b

NonZero(series, y) == y \in 1..Len(series) /\ series[y].n # 0

RoeAgrees(y) ==
    Agree(result.table["ROE_Calculated_%"][y], result.table["ROE_Actual_%"][y])

\* C2 as stated: with row-aligned inputs, in every year with a non-zero
\* Shareholders_Equity the calculated ROE equals the actual ROE, whatever
\* Revenue and Total_Assets are.
C2_Original ==
    (DuPontReturned /\ Aligned) =>
        \A y \in 1..Rows(result.table) :
            NonZero(balance["Shareholders_Equity"], y) => RoeAgrees(y)

\* C2, amended: in every year that both tables hold and in which
\* Shareholders_Equity, Revenue and Total_Assets are all non-zero, the
\* calculated ROE equals the actual ROE, and both are
\* Net_Income / Shareholders_Equity x 100.
C2_DuPontIdentity ==
    DuPontReturned =>
        \A y \in 1..Rows(result.table) :
            (/\ NonZero(balance["Shareholders_Equity"], y)
             /\ NonZero(balance["Total_Assets"], y)
             /\ NonZero(income["Revenue"], y))
                => /\ RoeAgrees(y)
                   /\ IsRatio(result.table["ROE_Calculated_%"][y], income["Net_Income"][y],
                              balance["Shareholders_Equity"][y], 100)

\* The DuPont table of the 2018 sample year: Net_Income 2.2 on an equity of
\* 160 is an ROE of 1.375%, calculated and actual.
C2_Witness ==
    /\ DuPontReturned
    /\ \E y \in 1..Rows(result.table) :
         /\ NonZero(income["Revenue"], y)
         /\ NonZero(balance["Total_Assets"], y)
         /\ income["Net_Income"][y] = T(22)
         /\ balance["Shareholders_Equity"][y] = Num(160)
         /\ result.table["ROE_Calculated_%"][y] = Fin(1375, 1000)
         /\ result.table["ROE_Actual_%"][y] = Fin(1375, 1000)

RatioOps ==
    {"calculate_profitability_ratios", "calculate_liquidity_ratios",
     "calculate_leverage_ratios", "calculate_efficiency_ratios",
     "analyze_dupont_model", "generate_ratio_summary", "benchmark_against_industry"}

\* C3: with input tables of different row counts every ratio operation
\* fails with an error, returns no table and stores none.
C3_RowCountMismatchFailsFast ==
    (Rows(income) # Rows(balance) /\ result.op \in RatioOps) =>
        /\ result.err # ""
        /\ DOMAIN result.table = {}
        /\ DOMAIN ratios = {}

\* The cells of the table the last calculate_* call returned that divide by
\* a field of the same year which is zero: <<column, year>>.
CellsWithDenominator(column, denominator) ==
    {<<column, y>> : y \in {z \in 1..Len(denominator) :
                               z <= Rows(result.table) /\ denominator[z] = Num(0)}}

ZeroDenominatorCells ==
    CASE result.op = "calculate_profitability_ratios" ->
            CellsWithDenominator("Gross_Margin_%", income["Revenue"])
                \cup CellsWithDenominator("EBIT_Margin_%", income["Revenue"])
                \cup CellsWithDenominator("Net_Margin_%", income["Revenue"])
                \cup CellsWithDenominator("ROA_%", balance["Total_Assets"])
                \cup CellsWithDenominator("ROE_%", balance["Shareholders_Equity"])
      [] result.op = "calculate_liquidity_ratios" ->
            CellsWithDenominator("Current_Ratio", balance["Current_Liabilities"])
                \cup CellsWithDenominator("WC_to_Revenue_%", income["Revenue"])
      [] result.op = "calculate_leverage_ratios" ->
            CellsWithDenominator("Debt_to_Equity", balance["Shareholders_Equity"])
                \cup CellsWithDenominator("Debt_to_Assets", balance["Total_Assets"])
                \cup CellsWithDenominator("Equity_Multiplier", balance["Shareholders_Equity"])
                \cup CellsWithDenominator("Interest_Coverage", income["Interest_Expense"])
      [] result.op = "calculate_efficiency_ratios" ->
            CellsWithDenominator("Asset_Turnover", balance["Total_Assets"])
      [] OTHER -> {}

\* C4: a zero denominator does not abort a ratio operation: the operation
\* returns its table, and the cell of every ratio whose denominator is zero
\* in that year is not-a-number.
C4_ZeroDenominatorIsNaN ==
    /\ result.op \in RatioOps \ {"generate_ratio_summary", "benchmark_against_industry"}
           => result.err = "" /\ DOMAIN result.table # {}
    /\ \A c \in ZeroDenominatorCells : IsNaN(result.table[c[1]][c[2]])

\* C5: when the calculated and the actual ROE of some year differ,
\* analyze_dupont_model issues a warning.
C5_MismatchIsWarned ==
    (/\ DuPontReturned
     /\ \E y \in 1..Rows(result.table) :
          /\ IsFinite(result.table["ROE_Actual_%"][y])
          /\ ~RoeAgrees(y))
        => result.warnings # {}

EfficiencyReturned == result.op = "calculate_efficiency_ratios"

Change(y) == result.table["Asset_Turnover_Change_%"][y]
Turnover(y) == result.table["Asset_Turnover"][y]

\* (a - b) / b x 100 in float64 arithmetic.
PercentChange(a, b) == Mul(Div(Sub(a, b), b), Hundred)

Permuted(df, p) == [c \in DOMAIN df |-> [i \in 1..Rows(df) |-> df[c][p[i]]]]

\* What the calculate_* operation of a category returns for given inputs.
Calculated(category, inc, bal) ==
    CASE category = "profitability" -> Profitability(inc, bal)
      [] category = "liquidity" -> Liquidity(inc, bal)
      [] category = "leverage" -> Leverage(inc, bal)
      [] category = "efficiency" -> Efficiency(inc, bal, fill_method)

\* The category whose calculate_* operation was the last call, if one was.
JustCalculated == {c \in Categories : result.op = CalculateOp[c]}

\* The columns of the category's table that do not move with their rows
\* when the rows of both inputs are put in the order p.
OrderDependent(category, p) ==
    LET t == Calculated(category, Permuted(income, p), Permuted(balance, p))
    IN {col \in DOMAIN t :
           \E i \in 1..Rows(income) : t[col][i] # result.table[col][p[i]]}

C10_Original ==
    [][income' = income /\ balance' = balance /\ ratios' = ratios]_vars

\* C10, amended: no operation changes the input tables;
\* analyze_dupont_model, identify_ratio_trends, generate_ratio_summary,
\* benchmark_against_industry and export_ratios leave the stored results as
\* they were; a calculate_* operation stores the table it returns under its
\* own category and leaves every other stored table as it was.
C10_Frame ==
    [][/\ income' = income
       /\ balance' = balance
       /\ result'.op \notin {CalculateOp[c] : c \in Categories} => ratios' = ratios
       /\ \A c \in Categories :
            result'.op = CalculateOp[c] =>
                /\ DOMAIN ratios' = DOMAIN ratios \cup {c}
                /\ ratios'[c] = result'.table
                /\ \A k \in DOMAIN ratios \ {c} : ratios'[k] = ratios[k]]_vars

\* calculate_liquidity_ratios has stored its table beside the profitability
\* table that was stored before it.
C10_Witness ==
    /\ result.op = "calculate_liquidity_ratios"
    /\ DOMAIN ratios = {"profitability", "liquidity"}
    /\ ratios["liquidity"] = result.table
    /\ ratios["profitability"] = Profitability(income, balance)

\* The Year column breaks the one-record-per-year invariant: a year occurs
\* twice, or the years are not strictly increasing.
BadYears(df) ==
    \E i \in 1..Rows(df) - 1 : ~(df["Year"][i].n < df["Year"][i + 1].n)

\* C11: input tables with a duplicate year, or with years that are not
\* strictly increasing, are rejected with an error before any ratio is
\* computed: no ratio operation returns a table for them and none is stored.
C11_BadYearsRejected ==
    (Aligned /\ BadYears(income)) =>
        /\ DOMAIN ratios = {}
        /\ result.op \in RatioOps => (result.err # "" /\ DOMAIN result.table = {})

\* C12: the stored tables are never updated incrementally.  Nothing is
\* stored before the first call; after every call the keys of the stored
\* tables are among profitability, liquidity, leverage and efficiency, a key
\* is there iff it was there before or the call is its calculate_*
\* operation, that operation stores the table computed from the whole inputs
\* (the same table as the one a previous call stored), and every other key,
\* and every key under the five other operations, keeps its table.
C12_StoredTables ==
    /\ DOMAIN ratios = {}
    /\ [][/\ DOMAIN ratios' \subseteq Categories
          /\ \A c \in Categories :
               /\ c \in DOMAIN ratios' <=>
                      (c \in DOMAIN ratios \/ result'.op = CalculateOp[c])
               /\ result'.op = CalculateOp[c] =>
                      /\ ratios'[c] = Calculated(c, income, balance)
                      /\ c \in DOMAIN ratios => ratios'[c] = ratios[c]
               /\ (result'.op # CalculateOp[c] /\ c \in DOMAIN ratios) =>
                      ratios'[c] = ratios[c]
          /\ result'.op \in {"analyze_dupont_model", "identify_ratio_trends",
                             "generate_ratio_summary", "benchmark_against_industry",
                             "export_ratios"} => ratios' = ratios]_vars

\* export_ratios has run with two of the four tables stored, each the table
\* its calculate_* operation computes.
C12_Witness ==
    /\ result.op = "export_ratios"
    /\ DOMAIN ratios = {"profitability", "efficiency"}
    /\ ratios["profitability"] = Profitability(income, balance)
    /\ ratios["efficiency"] = Efficiency(income, balance, fill_method)

\* The series the last identify_ratio_trends call put in a list.
Listed == result.trends.improving \cup result.trends.declining \cup result.trends.stable

\* The number of lists the last identify_ratio_trends call put series x in.
ListsOf(x) ==
    Cardinality({l \in {"improving", "declining", "stable"} : x \in result.trends[l]})

\* C13: identify_ratio_trends covers exactly the stored categories.  Every
\* series it lists is a non-Year column of a stored table of one of the four
\* categories (none is a DuPont series); a stored series with at least two
\* values that are not missing is in exactly one of the three lists, one with
\* fewer is in none; and with nothing stored the three lists are empty.
C13_TrendsCoverStored ==
    TrendsCalled =>
        /\ Listed \subseteq SeriesOf(ratios)
        /\ \A x \in Listed : x[1] \in Categories /\ x[2] # "Year"
        /\ \A x \in SeriesOf(ratios) :
               ListsOf(x) = (IF Cardinality(Defined(Stored(x))) >= 2 THEN 1 ELSE 0)
        /\ DOMAIN ratios = {} => Listed = {}

\* identify_ratio_trends has run on two stored categories: one series has
\* two values and is listed, Asset_Turnover_Change_% has one and is not.
C13_Witness ==
    /\ TrendsCalled
    /\ DOMAIN ratios = {"profitability", "efficiency"}
    /\ <<"profitability", "Gross_Margin_%">> \in Listed
    /\ Cardinality(Defined(ratios["efficiency"]["Asset_Turnover_Change_%"])) = 1
    /\ <<"efficiency", "Asset_Turnover_Change_%">> \notin Listed

\* C14: generate_ratio_summary and benchmark_against_industry return a table
\* iff the four calculate_* operations have all stored their tables before
\* the call; with one missing the call raises an error that names a missing
\* category and returns no table; either way the stored tables are left as
\* they were.
C14_SummaryNeedsAllFour ==
    [][result'.op \in {"generate_ratio_summary", "benchmark_against_industry"} =>
          /\ ratios' = ratios
          /\ (result'.err = "") <=> (DOMAIN ratios = Categories)
          /\ DOMAIN ratios = Categories => DOMAIN result'.table # {}
          /\ DOMAIN ratios # Categories =>
                 /\ result'.err \in Categories \ DOMAIN ratios
                 /\ result'.table = NoTable]_vars

\* benchmark_against_industry has failed with three of the four tables
\* stored: the error names the missing one.
C14_Witness ==
    /\ result.op = "benchmark_against_industry"
    /\ DOMAIN ratios = Categories \ {"leverage"}
    /\ result.err = "leverage"
    /\ result.table = NoTable

\* The metrics the claim lists as the columns of the ratio summary.
SixMetrics ==
    {"Gross_Margin_%", "EBIT_Margin_%", "ROE_%", "Current_Ratio", "Debt_to_Equity",
     "Asset_Turnover"}

\* The summary's value of a column in a year: a stored ratio, or the year.
SummaryCell(metric, i) ==
    IF metric = "Year" THEN At(income["Year"], i) ELSE Actual(metric, i)

\* The table has Year and, for each metric of ms, its two derived columns.
DerivedColumnsAre(ms) ==
    DOMAIN result.table = {<<"Year", "">>} \cup (ms \X {"_vs_Industry", "_Performance"})

\* C15 as stated: the derived columns are those of the mapping's metrics among
\* the six listed ones, and every other name of the mapping is skipped.
C15_Original ==
    BenchmarkReturned => DerivedColumnsAre(DOMAIN Compared \cap SixMetrics)

\* C15, amended: the columns of the ratio summary are Year and the six listed
\* metrics.  Each name of the mapping that is one of these seven yields
\* exactly '<name>_vs_Industry' (the summary's value minus the benchmark) and
\* '<name>_Performance', any other name is skipped without error, and an
\* empty mapping (or None) is replaced by the six defaults, so that the
\* result has the twelve derived columns.
C15_SummaryColumnsCompared ==
    BenchmarkReturned =>
        /\ DerivedColumnsAre(DOMAIN Compared \cap (SixMetrics \cup {"Year"}))
        /\ \A m \in DOMAIN Compared \cap (SixMetrics \cup {"Year"}) :
               \A i \in 1..Len(result.table[<<"Year", "">>]) :
                   result.table[<<m, "_vs_Industry">>][i] =
                       Sub(SummaryCell(m, i), Compared[m])
        /\ DOMAIN result.arg = {} =>
               /\ DerivedColumnsAre(SixMetrics)
               /\ Cardinality(DOMAIN result.table) = 13

\* A mapping that names Year and Current_Ratio has been compared on two
\* years: both have their two columns, and the second year is one year above
\* the Year benchmark.
C15_Witness ==
    /\ BenchmarkReturned
    /\ DOMAIN result.arg = {"Year", "Current_Ratio"}
    /\ DerivedColumnsAre({"Year", "Current_Ratio"})
    /\ Len(result.table[<<"Year", "">>]) = 2
    /\ result.table[<<"Year", "_vs_Industry">>][2] = Num(1)
    /\ result.table[<<"Year", "_Performance">>][2] = "Above"

ValidationReturned == extracted.op = "validate_data_quality"

\* The names of the loaded tables, in the order of the dict.
LoadedNames == [i \in 1..Len(financial_data) |-> financial_data[i].name]

\* The cells of a frame that are missing, as <<column, row>>.
MissingCells(df) ==
    UNION {{<<c, i>> : i \in {j \in DOMAIN df[c] : IsNaN(df[c][j])}} : c \in DOMAIN df}

\* How many times the last validation reports the issue.
Reported(issue) ==
    Cardinality({i \in 1..Len(extracted.validation.issues) :
                    extracted.validation.issues[i] = issue})

\* C16: validate_data_quality reports completeness False iff some loaded
\* table has a missing cell, with exactly one 'Missing values in <name>'
\* issue for each such table and none for the others; the income statement,
\* once loaded, has Revenue_Growth missing in its first year, so every
\* validation after load_income_statements reports completeness False.
C16_CompletenessFollowsMissingCells ==
    /\ \A i \in 1..Len(financial_data) :
           financial_data[i].name = "income_statement" =>
               <<"Revenue_Growth", 1>> \in MissingCells(financial_data[i].df)
    /\ ValidationReturned =>
           /\ extracted.validation.completeness =
                  (\A i \in 1..Len(financial_data) : MissingCells(financial_data[i].df) = {})
           /\ \A i \in 1..Len(financial_data) :
                  Reported("Missing values in " \o financial_data[i].name) =
                      (IF MissingCells(financial_data[i].df) = {} THEN 0 ELSE 1)
           /\ (\E i \in 1..Len(financial_data) : financial_data[i].name = "income_statement")
                  => extracted.validation.completeness = FALSE

\* The demonstration pipeline has loaded its three tables in its order and
\* validated them: the income statement is the only table reported, and the
\* balance sheet balances.
C16_Witness ==
    /\ ValidationReturned
    /\ LoadedNames = <<"income_statement", "balance_sheet", "cash_flow">>
    /\ extracted.validation =
           [completeness |-> FALSE, consistency |-> TRUE, accuracy |-> TRUE,
            issues |-> <<"Missing values in income_statement">>]

====
